---------------------------- MODULE Spec2Model ----------------------------
(***************************************************************************)
(* Model of updater.py (hmrc/build-dynamic-application-security-testing):  *)
(* the resolution of a seed list of ZAP addons against the upstream XML    *)
(* catalog (fill_addons_details), the rendering of the resolved set        *)
(* (generate_dockerfile_block) and the patching of the Dockerfile          *)
(* (update_dockerfile, write_dockerfile).                                  *)
(*                                                                         *)
(* A Python str is a sequence of characters.  A multi-character literal of *)
(* the source that the code only ever handles as a whole (a sentinel       *)
(* marker, a fixed piece of the rendered scaffold) is one element of the   *)
(* sequence.                                                               *)
(***************************************************************************)
EXTENDS Integers, Sequences, FiniteSets, TLC

VARIABLES
    xml_string,        \* the catalog handed to fill_addons_details
    seed,              \* the names requested, as read_addons produced them
    addons,            \* the list object fill_addons_details works on
    fill_result,       \* "none" | "returned" | "RecursionError"
    calls,             \* number of fill_addons_details calls on `addons`
    dockerfile_content,\* update_dockerfile: its first argument
    dockerfile_block,  \* update_dockerfile: its second argument
    patched,           \* update_dockerfile: what the last call gave
    file,              \* the Dockerfile on disk (write_dockerfile)
    wd_addons,         \* the resolved set handed to write_dockerfile
    needs_updating,    \* what the last write_dockerfile returned
    saves,             \* number of save_dockerfile calls so far
    last_saved,        \* did the last write_dockerfile call save_dockerfile
    wd_prev,           \* the file as it was when the last run started
    runs,              \* number of write_dockerfile runs so far
    wd_state,          \* "idle" | "returned" | "re.error"
    render_addons,     \* generate_dockerfile_block: its argument
    rendered,          \* generate_dockerfile_block: what the call gave
    publish,           \* main: its publish argument
    pc,                \* main: the statement it is at
    error,             \* main: the exception that ended the run, if any
    effects,           \* main: the publishing steps run so far, in order
    zap_addons_file,   \* read_addons: the content of the file it reads
    read_result,       \* read_addons: what the call gave
    env,               \* the locals of the function that is running
    calls_log,         \* the calls made so far, in order, with what each gave
    outcome            \* "none" | "running" | "returned" | the exception raised

vars == <<xml_string, seed, addons, fill_result, calls,
          dockerfile_content, dockerfile_block, patched,
          file, wd_addons, needs_updating, saves, last_saved, wd_prev,
          runs, wd_state, render_addons, rendered,
          publish, pc, error, effects,
          zap_addons_file, read_result, env, calls_log, outcome>>

fillVars == <<xml_string, seed, addons, fill_result, calls>>
patchVars == <<dockerfile_content, dockerfile_block, patched>>
writeVars == <<file, wd_addons, needs_updating, saves, last_saved, wd_prev,
               runs, wd_state>>
renderVars == <<render_addons, rendered>>
readVars == <<zap_addons_file, read_result>>
ioVars == <<env, calls_log, outcome>>
mainVars == <<publish, pc, error, effects>>

---------------------------------------------------------------------------
(* Bounds *)

MaxSeed == 3
MaxDeps == 2
MaxCalls == 2
MaxContent == 4
MaxBlock == 2
MaxFile == 3
MaxAddons == 2
MaxRuns == 2
MaxRender == 3
MaxFileLen == 5

---------------------------------------------------------------------------
(* Optional values: a tag that may be missing from the XML. *)

None == <<>>
Some(v) == <<v>>
IsSome(o) == Len(o) > 0
Get(o) == o[1]

Range(s) == {s[k] : k \in 1..Len(s)}

SeqsUpTo(S, n) == UNION {[1..k -> S] : k \in 0..n}

NoRepeat(s) == \A p, q \in 1..Len(s) : p # q => s[p] # s[q]

---------------------------------------------------------------------------
(* Data classes *)

\* Dependency(id, version="")
Dependency(id, version) == [id |-> id, version |-> version]

\* Addon(name): every other field defaults to "" / []
Addon(name) ==
    [name |-> name, date |-> <<>>, file |-> <<>>, hash |-> <<>>,
     not_before_version |-> <<>>, status |-> <<>>, url |-> <<>>,
     version |-> <<>>, dependencies |-> <<>>]

---------------------------------------------------------------------------
(* The catalog.  xml_string maps an addon name to the first element       *)
(* <addon_NAME> of the document, when there is one.  An element holds its  *)
(* metadata children (each possibly missing) and, when the path            *)
(* dependencies/addons exists, the <addon> elements under it, each with an *)
(* optional <id> and an optional <version>.                                *)

Names == {<<"a">>, <<"b">>, <<"c">>}

MetaTags == {"date", "file", "hash", "not-before-version", "status", "url", "version"}

\* the metadata an element of the catalog declares for addon n
FullMeta(n) ==
    [t \in MetaTags |->
        CASE t = "date"               -> Some(<<"2", "4">>)
          [] t = "file"               -> Some(n \o <<".", "z">>)
          [] t = "hash"               -> Some(<<"h">> \o n)
          [] t = "not-before-version" -> Some(<<"2">>)
          [] t = "status"             -> Some(<<"r">>)
          [] t = "url"                -> Some(<<"/">> \o n \o <<"-", "1">>)
          [] t = "version"            -> Some(<<"1">>)]

DepTag(id, version) == [id |-> id, version |-> version]

\* the <addon> declarations one element may hold: unpinned references
DepTags == {DepTag(Some(n), None) : n \in Names}

DepLists == {s \in SeqsUpTo(DepTags, MaxDeps) : NoRepeat(s)}

\* addons that declare no dependency of their own in any catalog here
LeafNames == {<<"c">>}

\* the elements a catalog may hold for name n: without the path
\* dependencies/addons, or with it and a list of declarations
Elements(n) ==
    {[meta |-> FullMeta(n), deps |-> d] :
        d \in {None} \cup {Some(l) : l \in IF n \in LeafNames THEN {<<>>} ELSE DepLists}}

Catalogs == {c \in [Names -> UNION {{None} \cup {Some(e) : e \in Elements(n)} : n \in Names}] :
                \A n \in Names : c[n] = None \/ Get(c[n]) \in Elements(n)}

\* zap.getElementsByTagName("addon_" + name) is not empty
HasElement(xml, name) == name \in DOMAIN xml /\ IsSome(xml[name])


---------------------------------------------------------------------------
(* read_tag_value and the resolver *)

\* the text of the first <tag> element below an <addon_NAME> element, in
\* document order: the element's own child when it has one, otherwise (for
\* "version" only, the metadata tag that a dependency declaration also
\* uses) the <version> of the first dependency that pins one.  A missing
\* tag gives "".
read_tag_value(xml_addon, tag) ==
    IF IsSome(xml_addon.meta[tag]) THEN Get(xml_addon.meta[tag])
    ELSE IF tag = "version" /\ IsSome(xml_addon.deps)
              /\ \E k \in 1..Len(Get(xml_addon.deps)) : IsSome(Get(xml_addon.deps)[k].version)
         THEN LET l == Get(xml_addon.deps)
                  k == CHOOSE k \in 1..Len(l) :
                          /\ IsSome(l[k].version)
                          /\ \A j \in 1..(k - 1) : ~IsSome(l[j].version)
              IN Get(l[k].version)
         ELSE <<>>

\* read_tag_value on one <addon> declaration of a dependency list
read_dep_value(opt) == IF IsSome(opt) THEN Get(opt) ELSE <<>>

\* list.remove(x): drops the first element equal to x
list_remove(l, x) ==
    LET k == CHOOSE k \in 1..Len(l) : l[k] = x /\ \A j \in 1..(k - 1) : l[j] # x
    IN SubSeq(l, 1, k - 1) \o SubSeq(l, k + 1, Len(l))

\* lines 353-359: the metadata of the element is copied into the record
fill_metadata(addon, xml_addon) ==
    [addon EXCEPT !.date = read_tag_value(xml_addon, "date"),
                  !.file = read_tag_value(xml_addon, "file"),
                  !.hash = read_tag_value(xml_addon, "hash"),
                  !.not_before_version = read_tag_value(xml_addon, "not-before-version"),
                  !.status = read_tag_value(xml_addon, "status"),
                  !.url = read_tag_value(xml_addon, "url"),
                  !.version = read_tag_value(xml_addon, "version")]

RECURSIVE fill_loop(_, _, _, _, _)
RECURSIVE dependency_loop(_, _, _, _, _, _)
RECURSIVE add_if_not_exists(_, _, _, _)

\* fill_addons_details(addons, xml_string).  `chain` holds the names whose
\* single-record call (made by add_if_not_exists) is still running: a call
\* for a name of the chain repeats an enclosing call with equal arguments,
\* the recursion never ends and Python raises RecursionError.  The result
\* is [err, list]: whether RecursionError was raised, and the list object
\* as the call left it.
fill_addons_details(addons_, xml, chain) == fill_loop(addons_, 1, <<>>, xml, chain)

\* add_if_not_exists mistaken: any record in the list counts as a match
add_if_not_exists_any(addons_, dependency_name, xml, chain) ==
    IF Len(addons_) > 0
    THEN [err |-> FALSE, list |-> addons_]
    ELSE IF dependency_name \in chain
         THEN [err |-> TRUE, list |-> addons_]
         ELSE LET r == fill_addons_details(<<Addon(dependency_name)>>, xml,
                                           chain \cup {dependency_name})
              IN IF r.err THEN [err |-> TRUE, list |-> addons_]
                 ELSE [err |-> FALSE, list |-> addons_ \o r.list]

add_if_not_exists(addons_, dependency_name, xml, chain) ==
    IF \E k \in 1..Len(addons_) : addons_[k].name = dependency_name
    THEN [err |-> FALSE, list |-> addons_]
    ELSE IF dependency_name \in chain
         THEN [err |-> TRUE, list |-> addons_]
         ELSE LET r == fill_addons_details(<<Addon(dependency_name)>>, xml,
                                           chain \cup {dependency_name})
              IN IF r.err THEN [err |-> TRUE, list |-> addons_]
                 ELSE [err |-> FALSE, list |-> addons_ \o r.list]

\* line 374 mistaken: the declaring addon is resolved, not the dependency
dependency_loop_self(tags, k, addon, dependencies, xml, chain) ==
    IF k > Len(tags)
    THEN [err |-> FALSE, addon |-> addon, dependencies |-> dependencies]
    ELSE LET dependency_name == read_dep_value(tags[k].id)
             dependency_version == read_dep_value(tags[k].version)
             appended == [addon EXCEPT !.dependencies =
                             Append(@, Dependency(dependency_name, dependency_version))]
             r == add_if_not_exists(dependencies, addon.name, xml, chain)
         IN IF r.err
            THEN [err |-> TRUE, addon |-> appended, dependencies |-> dependencies]
            ELSE dependency_loop(tags, k + 1, appended, r.list, xml, chain)

\* lines 370-374: the loop over the <addon> declarations, from the k-th on
dependency_loop(tags, k, addon, dependencies, xml, chain) ==
    IF k > Len(tags)
    THEN [err |-> FALSE, addon |-> addon, dependencies |-> dependencies]
    ELSE LET dependency_name == read_dep_value(tags[k].id)
             dependency_version == read_dep_value(tags[k].version)
             appended == [addon EXCEPT !.dependencies =
                             Append(@, Dependency(dependency_name, dependency_version))]
             r == add_if_not_exists(dependencies, dependency_name, xml, chain)
         IN IF r.err
            THEN [err |-> TRUE, addon |-> appended, dependencies |-> dependencies]
            ELSE dependency_loop(tags, k + 1, appended, r.list, xml, chain)

\* lines 344-378: `for addon in addons`, the list iterator standing at
\* index i (1-based); the iterator's index advances on every round, also
\* on the round that removed an element from the list it walks
fill_loop(addons_, i, dependencies, xml, chain) ==
    IF i > Len(addons_)
    THEN [err |-> FALSE, list |-> addons_ \o dependencies]
    ELSE LET addon == addons_[i] IN
         IF ~HasElement(xml, addon.name)
         THEN fill_loop(list_remove(addons_, addon), i + 1, dependencies, xml, chain)
         ELSE LET xml_addon == Get(xml[addon.name])
                  filled == fill_metadata(addon, xml_addon)
              IN IF ~IsSome(xml_addon.deps)
                 THEN fill_loop([addons_ EXCEPT ![i] = filled], i + 1, dependencies, xml, chain)
                 ELSE LET r == dependency_loop(Get(xml_addon.deps), 1, filled,
                                               dependencies, xml, chain)
                      IN IF r.err
                         THEN [err |-> TRUE, list |-> [addons_ EXCEPT ![i] = r.addon]]
                         ELSE fill_loop([addons_ EXCEPT ![i] = r.addon], i + 1,
                                        r.dependencies, xml, chain)

---------------------------------------------------------------------------
(* The resolver as a state machine: build_addons hands the records that   *)
(* read_addons made to fill_addons_details, which fills and extends that   *)
(* list in place and returns it; a caller may hand the returned list in    *)
(* again.                                                                  *)

SeedLists == SeqsUpTo(Names, MaxSeed)

PatchIdle ==
    /\ dockerfile_content = <<>>
    /\ dockerfile_block = <<>>
    /\ patched = [err |-> FALSE, content |-> <<>>, called |-> FALSE]

WriteIdle ==
    /\ file = <<>>
    /\ wd_addons = <<>>
    /\ needs_updating = FALSE
    /\ saves = 0
    /\ last_saved = FALSE
    /\ wd_prev = <<>>
    /\ runs = 0
    /\ wd_state = "idle"

RenderIdle ==
    /\ render_addons = <<>>
    /\ rendered = [called |-> FALSE, block |-> <<>>]

ReadIdle ==
    /\ zap_addons_file = <<>>
    /\ read_result = [called |-> FALSE, addons |-> <<>>]

IoIdle ==
    /\ env = <<>>
    /\ calls_log = <<>>
    /\ outcome = "none"

MainIdle ==
    /\ publish = FALSE
    /\ pc = "idle"
    /\ error = "none"
    /\ effects = <<>>

FillIdle ==
    /\ xml_string = [n \in Names |-> None]
    /\ seed = <<>>
    /\ addons = <<>>
    /\ fill_result = "none"
    /\ calls = 0

InitFill ==
    /\ xml_string \in Catalogs
    /\ seed \in SeedLists
    /\ addons = [k \in 1..Len(seed) |-> Addon(seed[k])]
    /\ fill_result = "none"
    /\ calls = 0
    /\ PatchIdle
    /\ WriteIdle
    /\ RenderIdle
    /\ ReadIdle
    /\ IoIdle
    /\ MainIdle

\* one call fill_addons_details(addons, xml_string); a RecursionError is
\* not caught anywhere and ends the run
FillAddonsDetails ==
    /\ fill_result # "RecursionError"
    /\ calls < MaxCalls
    /\ LET r == fill_addons_details(addons, xml_string, {})
       IN /\ addons' = r.list
          /\ fill_result' = IF r.err THEN "RecursionError" ELSE "returned"
    /\ calls' = calls + 1
    /\ UNCHANGED <<xml_string, seed, patchVars, writeVars, renderVars, readVars, ioVars, mainVars>>

NextFill == FillAddonsDetails

SpecFill == InitFill /\ [][NextFill]_vars

---------------------------------------------------------------------------
(* Properties of the resolver *)

OutputNames == {addons[k].name : k \in 1..Len(addons)}

\* the record the catalog describes for name n: every metadata field read
\* from the element, one Dependency per declaration in declaration order
Enriched(xml, n) ==
    LET xml_addon == Get(xml[n])
        tags == IF IsSome(xml_addon.deps) THEN Get(xml_addon.deps) ELSE <<>>
    IN [fill_metadata(Addon(n), xml_addon) EXCEPT !.dependencies =
           [k \in 1..Len(tags) |->
               Dependency(read_dep_value(tags[k].id), read_dep_value(tags[k].version))]]

\* the first call on the records read_addons made has returned
FirstCallReturned == fill_result = "returned" /\ calls = 1

\* C1: no duplication - for a seed list of distinct names, the list that
\* fill_addons_details returns holds no two records with the same name
NoDuplication ==
    (FirstCallReturned /\ NoRepeat(seed)) =>
        \A p, q \in 1..Len(addons) : p # q => addons[p].name # addons[q].name

\* C2: drop-on-miss - a requested name without an element in the catalog
\* is absent from the returned list (already so for seed lists of distinct
\* names)
DropOnMiss ==
    (FirstCallReturned /\ NoRepeat(seed)) =>
        \A k \in 1..Len(seed) :
            ~HasElement(xml_string, seed[k]) => seed[k] \notin OutputNames

\* C3: found-means-enriched - a requested name with an element in the
\* catalog is in the returned list with every metadata field and its
\* dependency list taken from that element, wherever it stands in the seed
\* (already so for seed lists of distinct names)
FoundMeansEnriched ==
    (FirstCallReturned /\ NoRepeat(seed)) =>
        \A k \in 1..Len(seed) :
            HasElement(xml_string, seed[k]) =>
                \E j \in 1..Len(addons) : addons[j] = Enriched(xml_string, seed[k])

\* C4: closure completeness - every DependencyRef held by a record of the
\* returned list names a record of the list or a name the catalog lacks
ClosureCompleteness ==
    fill_result = "returned" =>
        \A j \in 1..Len(addons) :
            \A d \in 1..Len(addons[j].dependencies) :
                \/ addons[j].dependencies[d].id \in OutputNames
                \/ ~HasElement(xml_string, addons[j].dependencies[d].id)

\* C4 witness: a returned list in which one record depends on two names,
\* one that the catalog has (and the list holds) and one that it lacks
ClosureWitness ==
    /\ fill_result = "returned"
    /\ \E j \in 1..Len(addons) :
          \E d, e \in 1..Len(addons[j].dependencies) :
              /\ HasElement(xml_string, addons[j].dependencies[d].id)
              /\ addons[j].dependencies[d].id \in OutputNames
              /\ addons[j].dependencies[d].id \notin Range(seed)
              /\ ~HasElement(xml_string, addons[j].dependencies[e].id)

\* the names an element of the catalog declares as dependencies, in
\* declaration order
DeclaredNames(xml, n) ==
    IF HasElement(xml, n) /\ IsSome(Get(xml[n]).deps)
    THEN LET tags == Get(Get(xml[n]).deps)
         IN [k \in 1..Len(tags) |-> read_dep_value(tags[k].id)]
    ELSE <<>>

RECURSIVE discover(_, _, _, _)

\* depth-first discovery along the list `names`, from its k-th name on:
\* a name of the catalog not yet in `out` is added at this, its first,
\* discovery, and its own declarations are walked before the next name
discover(names, k, out, xml) ==
    IF k > Len(names) THEN out
    ELSE IF HasElement(xml, names[k]) /\ names[k] \notin Range(out)
         THEN discover(names, k + 1,
                       discover(DeclaredNames(xml, names[k]), 1,
                                Append(out, names[k]), xml), xml)
         ELSE discover(names, k + 1, out, xml)

RECURSIVE discover_from(_, _, _, _)

\* the dependencies of the requested addons found[k], found[k+1], ... in
\* that order
discover_from(found, k, out, xml) ==
    IF k > Len(found) THEN out
    ELSE discover_from(found, k + 1,
                       discover(DeclaredNames(xml, found[k]), 1, out, xml), xml)

\* the order the claim gives: the requested names that the catalog has,
\* as requested, then the discovered dependencies
GuaranteedOrder(seed_, xml) ==
    LET found == SelectSeq(seed_, LAMBDA n : HasElement(xml, n))
    IN discover_from(found, 1, found, xml)

\* C12: ordering guarantee - the returned list holds the requested addons
\* that were found, in requested order, and after them the discovered
\* dependencies, each at its first discovery, depth-first
OrderingGuarantee ==
    (FirstCallReturned /\ NoRepeat(seed)) =>
        [k \in 1..Len(addons) |-> addons[k].name] = GuaranteedOrder(seed, xml_string)

\* C13: dependency fan-out - a record of a found addon that declares
\* dependencies holds one Dependency per declaration, in declaration order,
\* with the declared id and version; every declared name that the catalog
\* has and the seed list lacks is in the returned list as its own enriched
\* record; and [A] with A depending on B alone gives exactly [A, B]
DependencyFanOut ==
    (FirstCallReturned /\ NoRepeat(seed)) =>
        /\ \A k \in 1..Len(seed) :
              (HasElement(xml_string, seed[k])
                  /\ Len(DeclaredNames(xml_string, seed[k])) > 0) =>
                  /\ \A j \in 1..Len(addons) :
                        addons[j].name = seed[k] =>
                            addons[j].dependencies
                                = Enriched(xml_string, seed[k]).dependencies
                  /\ \A d \in Range(DeclaredNames(xml_string, seed[k])) :
                        (HasElement(xml_string, d) /\ d \notin Range(seed)) =>
                            \E j \in 1..Len(addons) :
                                addons[j] = Enriched(xml_string, d)
        /\ \A A, B \in Names :
              (/\ seed = <<A>>
               /\ A # B
               /\ DeclaredNames(xml_string, A) = <<B>>
               /\ HasElement(xml_string, B)
               /\ DeclaredNames(xml_string, B) = <<>>) =>
                  addons = <<Enriched(xml_string, A), Enriched(xml_string, B)>>

RECURSIVE ReachFrom(_, _, _)

\* the names reached from the set S along at most k more declarations
ReachFrom(xml, S, k) ==
    IF k = 0 THEN S
    ELSE ReachFrom(xml, S \cup UNION {Range(DeclaredNames(xml, n)) : n \in S}, k - 1)

\* the dependency graph of the catalog has a cycle: some addon is reached
\* from its own declarations
Cyclic(xml) ==
    \E n \in Names :
        n \in ReachFrom(xml, Range(DeclaredNames(xml, n)), Cardinality(Names))

\* C14: cycle safety - on a catalog whose dependencies form a cycle every
\* call of fill_addons_details still comes to an end and returns
CycleSafety ==
    (calls >= 1 /\ Cyclic(xml_string)) => fill_result = "returned"

\* C15: termination on acyclic catalogs - on a catalog without a
\* dependency cycle every call of fill_addons_details, on any seed list,
\* comes to an end and returns a list
AcyclicTermination ==
    (calls >= 1 /\ ~Cyclic(xml_string)) => fill_result = "returned"

\* C15 witness: a call returned on a catalog without cycle in which a
\* requested addon reaches, two declarations deep, an addon not requested
AcyclicWitness ==
    /\ FirstCallReturned
    /\ ~Cyclic(xml_string)
    /\ \E n \in Range(seed) :
          \E m \in Range(DeclaredNames(xml_string, n)) :
              \E l \in Range(DeclaredNames(xml_string, m)) :
                  /\ HasElement(xml_string, l)
                  /\ l \notin Range(seed)
                  /\ l \in OutputNames

---------------------------------------------------------------------------
(* Strings *)

LF == "LF"                  \* the line break "\n"
BSL == "BSL"                \* one backslash
BEL == "BEL"                \* "\a"
BSP == "BSP"                \* "\b"
CR == "CR"                  \* "\r"

\* autogenerated_start and autogenerated_end (lines 430-431)
autogenerated_start == "# Autogenerated by updater.py - DO NOT EDIT MANUALLY"
autogenerated_end == "# Autogenerated END"

\* a text that is not autogenerated_start and that the pattern built from
\* it matches all the same: the "." of "updater.py" is not escaped in the
\* pattern and stands for any character
near_start == "# Autogenerated by updater-py - DO NOT EDIT MANUALLY"

\* what the regular expression `autogenerated_start` matches
StartMatches == {autogenerated_start, near_start}

\* s in t (Python's substring test on str)
IsSubstr(s, t) ==
    \E k \in 0..(Len(t) - Len(s)) : SubSeq(t, k + 1, k + Len(s)) = s

EndsWith(s, c) == Len(s) > 0 /\ s[Len(s)] = c

\* str.upper(), on the letters of the model
UpperMap == [c \in {"a", "b", "c"} |-> CASE c = "a" -> "A" [] c = "b" -> "B" [] c = "c" -> "C"]

upper(s) == [k \in 1..Len(s) |-> IF s[k] \in DOMAIN UpperMap THEN UpperMap[s[k]] ELSE s[k]]

RECURSIVE replace_from(_, _, _, _)
\* str.replace(old, new) for a non-empty old, scanning from index k
replace_from(s, old, new, k) ==
    IF k > Len(s) THEN <<>>
    ELSE IF k + Len(old) - 1 <= Len(s) /\ SubSeq(s, k, k + Len(old) - 1) = old
         THEN new \o replace_from(s, old, new, k + Len(old))
         ELSE <<s[k]>> \o replace_from(s, old, new, k + 1)

RECURSIVE interleave(_, _, _)
\* str.replace("", new): new before every character and at the end
interleave(s, new, k) ==
    IF k > Len(s) THEN new ELSE new \o <<s[k]>> \o interleave(s, new, k + 1)

\* line 407 mistaken: replace(old, new, 1), the first occurrence only
str_replace_first(s, old, new) ==
    IF Len(old) = 0 THEN new \o s
    ELSE IF IsSubstr(old, s)
         THEN LET k == CHOOSE k \in 1..Len(s) :
                          /\ k + Len(old) - 1 <= Len(s)
                          /\ SubSeq(s, k, k + Len(old) - 1) = old
                          /\ \A j \in 1..(k - 1) :
                                ~(j + Len(old) - 1 <= Len(s)
                                  /\ SubSeq(s, j, j + Len(old) - 1) = old)
              IN SubSeq(s, 1, k - 1) \o new \o SubSeq(s, k + Len(old), Len(s))
         ELSE s

str_replace(s, old, new) ==
    IF Len(old) = 0 THEN interleave(s, new, 1) ELSE replace_from(s, old, new, 1)

---------------------------------------------------------------------------
(* generate_dockerfile_block (lines 395-420) *)

RECURSIVE args_lines(_, _)
args_lines(addons_, index) ==
    IF index > Len(addons_) THEN <<>>
    ELSE <<"ARG ">> \o upper(addons_[index].name) \o <<"_VERSION=">> \o addons_[index].version
         \o (IF index < Len(addons_) THEN <<LF>> ELSE <<>>)
         \o args_lines(addons_, index + 1)

RECURSIVE rm_lines(_, _)
rm_lines(addons_, index) ==
    IF index > Len(addons_) THEN <<>>
    ELSE <<"        ">> \o addons_[index].name \o <<"-">> \o addons_[index].status
         \o <<"-*.zap ", BSL>>
         \o (IF index < Len(addons_) THEN <<LF>> ELSE <<>>)
         \o rm_lines(addons_, index + 1)

version_string(addon) == <<"${">> \o upper(addon.name) \o <<"_VERSION}">>

RECURSIVE wget_lines(_, _)

\* line 408 mistaken (index <= max_index): the last line continues too
wget_lines_all(addons_, index) ==
    IF index > Len(addons_) THEN <<>>
    ELSE <<"        ">>
         \o str_replace(addons_[index].url, addons_[index].version,
                        version_string(addons_[index]))
         \o <<" ", BSL, LF>>
         \o wget_lines(addons_, index + 1)

wget_lines(addons_, index) ==
    IF index > Len(addons_) THEN <<>>
    ELSE <<"        ">>
         \o str_replace(addons_[index].url, addons_[index].version,
                        version_string(addons_[index]))
         \o (IF index < Len(addons_) THEN <<" ", BSL, LF>> ELSE <<>>)
         \o wget_lines(addons_, index + 1)

\* lines 396-397 left out: the scaffold is rendered for the empty set too
generate_dockerfile_block_noguard(addons_) ==
    <<LF, "WORKDIR /zap/plugin", LF>> \o args_lines(addons_, 1)
    \o <<LF, "RUN rm --force ", BSL, LF>> \o rm_lines(addons_, 1)
    \o <<LF, "    && wget --quiet ", BSL, LF>> \o wget_lines(addons_, 1)
    \o <<LF>>

generate_dockerfile_block(addons_) ==
    IF Len(addons_) = 0 THEN <<>>
    ELSE <<LF, "WORKDIR /zap/plugin", LF>> \o args_lines(addons_, 1)
         \o <<LF, "RUN rm --force ", BSL, LF>> \o rm_lines(addons_, 1)
         \o <<LF, "    && wget --quiet ", BSL, LF>> \o wget_lines(addons_, 1)
         \o <<LF>>

---------------------------------------------------------------------------
(* update_dockerfile (lines 429-439) *)

\* escapes that re.sub resolves in a replacement template
EscapeTo == ("n" :> LF) @@ (BSL :> BSL) @@ ("a" :> BEL) @@ ("b" :> BSP) @@ ("r" :> CR)

\* ASCII letters and digits of the model without a meaning after a
\* backslash: re.sub raises re.error (bad escape, invalid group reference)
BadEscapes == {"c", "d", "h", "u", "z", "A", "B", "C", "1", "2", "4"}

RECURSIVE concat(_, _, _)
\* the strings pieces[lo], ..., pieces[hi] joined
concat(pieces, lo, hi) ==
    IF lo > hi THEN <<>>
    ELSE IF lo = hi THEN pieces[lo]
    ELSE LET mid == (lo + hi) \div 2
         IN concat(pieces, lo, mid) \o concat(pieces, mid + 1, hi)

\* the replacement template as re.sub expands it: [err, text].  The
\* template is read left to right, a backslash takes the character after
\* it; so in a run of backslashes the 1st, 3rd, ... open an escape and the
\* others are the character of the escape before them.
expand_template(t) ==
    LET RunStart(k) == CHOOSE j \in 1..k :
                          /\ \A m \in j..k : t[m] = BSL
                          /\ (j = 1 \/ t[j - 1] # BSL)
        Opens(k) == t[k] = BSL /\ (k - RunStart(k)) % 2 = 0
        Taken(k) == k > 1 /\ Opens(k - 1)
        pieces == [k \in 1..Len(t) |->
                      IF Taken(k) THEN <<>>
                      ELSE IF ~Opens(k) THEN <<t[k]>>
                      ELSE IF k = Len(t) THEN <<>>
                      ELSE IF t[k + 1] \in DOMAIN EscapeTo THEN <<EscapeTo[t[k + 1]]>>
                      ELSE <<BSL, t[k + 1]>>]
    IN IF \E k \in 1..Len(t) : Opens(k) /\ (k = Len(t) \/ t[k + 1] \in BadEscapes)
       THEN [err |-> TRUE, text |-> <<>>]
       ELSE [err |-> FALSE, text |-> concat(pieces, 1, Len(t))]

\* a match of f"{autogenerated_start}.*{autogenerated_end}" (DOTALL)
\* starts at p: there is an end marker after it
MatchAt(content, p) ==
    /\ content[p] \in StartMatches
    /\ \E q \in (p + 1)..Len(content) : content[q] = autogenerated_end

\* ".*" is greedy: the match runs to the last end marker
MatchEnd(content, p) ==
    CHOOSE q \in (p + 1)..Len(content) :
        /\ content[q] = autogenerated_end
        /\ \A j \in (q + 1)..Len(content) : content[j] # autogenerated_end

RECURSIVE re_sub(_, _, _)
\* re.sub: every non-overlapping match, leftmost first, from index pos on,
\* gives way to the expanded replacement
re_sub(content, repl, pos) ==
    IF \E p \in pos..Len(content) : MatchAt(content, p)
    THEN LET p == CHOOSE p \in pos..Len(content) :
                     MatchAt(content, p) /\ \A j \in pos..(p - 1) : ~MatchAt(content, j)
             q == MatchEnd(content, p)
         IN SubSeq(content, pos, p - 1) \o repl \o re_sub(content, repl, q + 1)
    ELSE SubSeq(content, pos, Len(content))

\* lines 432-433 mistaken: the line break is appended to every block
with_line_break_always(block) == Append(block, LF)

\* lines 432-433
with_line_break(block) == IF EndsWith(block, LF) THEN block ELSE Append(block, LF)

\* [err, content]: re.error raised, or the string returned
update_dockerfile(content, block) ==
    LET t == expand_template(<<autogenerated_start>> \o with_line_break(block)
                             \o <<autogenerated_end>>)
    IN IF t.err THEN [err |-> TRUE, content |-> <<>>]
       ELSE [err |-> FALSE, content |-> re_sub(content, t.text, 1)]

---------------------------------------------------------------------------
(* update_dockerfile applied to any content and any block *)

ContentChars == {autogenerated_start, near_start, autogenerated_end, "d"}
BlockChars == {LF, BSL, "n", "d"}

Contents == SeqsUpTo(ContentChars, MaxContent)
Blocks == SeqsUpTo(BlockChars, MaxBlock)

InitPatch ==
    /\ dockerfile_content \in Contents
    /\ dockerfile_block \in Blocks
    /\ patched = [err |-> FALSE, content |-> <<>>, called |-> FALSE]
    /\ FillIdle
    /\ WriteIdle
    /\ RenderIdle
    /\ ReadIdle
    /\ IoIdle
    /\ MainIdle

UpdateDockerfile ==
    /\ ~patched.called
    /\ LET r == update_dockerfile(dockerfile_content, dockerfile_block)
       IN patched' = [err |-> r.err, content |-> r.content, called |-> TRUE]
    /\ UNCHANGED <<dockerfile_content, dockerfile_block, fillVars, writeVars,
                   renderVars, readVars, ioVars, mainVars>>

NextPatch == UpdateDockerfile

SpecPatch == InitPatch /\ [][NextPatch]_vars

---------------------------------------------------------------------------
(* write_dockerfile (lines 310-320) on one Dockerfile, run after run *)

\* line 314 mistaken: the block is compared with the whole content
needs_update_eq(block, content) == block # content

\* line 314: dockerfile_block not in dockerfile_content
needs_update(block, content) == ~IsSubstr(block, content)

\* the records of a resolved set: an addon of the catalog at one of its
\* released versions
Release(n, v) ==
    [Addon(n) EXCEPT !.date = <<"2", "4">>, !.file = n \o <<".", "z">>,
                     !.hash = <<"h">> \o n, !.not_before_version = <<"2">>,
                     !.status = <<"r">>, !.url = <<"/">> \o n \o <<"-">> \o v,
                     !.version = v]

Releases == {Release(<<"a">>, <<"1">>), Release(<<"a">>, <<"2">>), Release(<<"b">>, <<"1">>)}

AddonSets == SeqsUpTo(Releases, MaxAddons)

\* what a Dockerfile is made of here: the markers, other text, and the
\* block an earlier run generated for release 1 of addon a
FileParts ==
    {<<autogenerated_start>>, <<autogenerated_end>>, <<"d">>}
        \cup {generate_dockerfile_block(<<Release(<<"a">>, <<"1">>)>>)}

Files == {concat(parts, 1, Len(parts)) : parts \in SeqsUpTo(FileParts, MaxFile)}

InitWrite ==
    /\ file \in Files
    /\ wd_addons \in AddonSets
    /\ needs_updating = FALSE
    /\ saves = 0
    /\ last_saved = FALSE
    /\ wd_prev = <<>>
    /\ runs = 0
    /\ wd_state = "idle"
    /\ FillIdle
    /\ PatchIdle
    /\ RenderIdle
    /\ ReadIdle
    /\ IoIdle
    /\ MainIdle

\* one run of write_dockerfile(wd_addons, dockerfile_path); re.error is
\* not caught anywhere and ends the run before save_dockerfile
WriteDockerfile ==
    /\ wd_state # "re.error"
    /\ runs < MaxRuns
    /\ LET dockerfile_block_ == generate_dockerfile_block(wd_addons)
           dockerfile_content_ == file
           needs == needs_update(dockerfile_block_, dockerfile_content_)
           r == update_dockerfile(dockerfile_content_, dockerfile_block_)
       IN IF needs /\ r.err
          THEN /\ wd_state' = "re.error"
               /\ UNCHANGED <<file, needs_updating, saves>>
               /\ last_saved' = FALSE
          ELSE /\ wd_state' = "returned"
               /\ file' = IF needs THEN r.content ELSE file
               /\ saves' = IF needs THEN saves + 1 ELSE saves
               /\ last_saved' = needs
               /\ needs_updating' = needs
    /\ wd_prev' = file
    /\ runs' = runs + 1
    /\ UNCHANGED <<wd_addons, fillVars, patchVars, renderVars, readVars, ioVars, mainVars>>

NextWrite == WriteDockerfile

SpecWrite == InitWrite /\ [][NextWrite]_vars

---------------------------------------------------------------------------
(* Properties of the patcher *)

\* the content holds a region: a start marker and an end marker after it
HasRegion(content) ==
    \E p, q \in 1..Len(content) :
        p < q /\ content[p] = autogenerated_start /\ content[q] = autogenerated_end

\* index of the first start marker
FirstStart(content) ==
    CHOOSE p \in 1..Len(content) :
        /\ content[p] = autogenerated_start
        /\ \A j \in 1..(p - 1) : content[j] # autogenerated_start

\* index of the first end marker after index p
FirstEndAfter(content, p) ==
    CHOOSE q \in (p + 1)..Len(content) :
        /\ content[q] = autogenerated_end
        /\ \A j \in (p + 1)..(q - 1) : content[j] # autogenerated_end

EndsAfter(content, p) == {q \in (p + 1)..Len(content) : content[q] = autogenerated_end}

\* update_dockerfile was called and returned a string
PatchReturned == patched.called /\ ~patched.err

\* C5: idempotence of patching - the block occurs verbatim in the content
\* that update_dockerfile returns, whatever the content and the block
IdempotentPatch ==
    PatchReturned => IsSubstr(dockerfile_block, patched.content)

\* C7: a missing sentinel region is fatal - on content without a region
\* update_dockerfile fails with an error and returns no content
MissingRegionFatal ==
    (patched.called /\ ~HasRegion(dockerfile_content)) => patched.err

\* C8: shortest-span replacement - with more than one end marker after the
\* first start marker, only the span up to the first of them is replaced
\* and the text after that end marker stays
ShortestSpan ==
    (PatchReturned /\ HasRegion(dockerfile_content)
       /\ Cardinality(EndsAfter(dockerfile_content, FirstStart(dockerfile_content))) > 1) =>
        LET p == FirstStart(dockerfile_content)
            q == FirstEndAfter(dockerfile_content, p)
        IN patched.content =
              SubSeq(dockerfile_content, 1, p)
              \o expand_template(with_line_break(dockerfile_block)).text
              \o SubSeq(dockerfile_content, q, Len(dockerfile_content))

\* C9: patch frame - on content with a region both markers stay, and the
\* text before the start marker and after the end marker is the input's
PatchFrame ==
    (PatchReturned /\ HasRegion(dockerfile_content)) =>
        LET p == FirstStart(dockerfile_content)
            q == FirstEndAfter(dockerfile_content, p)
            tail == Len(dockerfile_content) - q + 1
            out == patched.content
        IN /\ Len(out) >= p + tail
           /\ SubSeq(out, 1, p) = SubSeq(dockerfile_content, 1, p)
           /\ SubSeq(out, Len(out) - tail + 1, Len(out))
                 = SubSeq(dockerfile_content, q, Len(dockerfile_content))

\* C6: no spurious changes - with the same resolved set and no edit from
\* outside, every run of write_dockerfile after the first returns False
\* and does not write the file
NoSpuriousChanges ==
    (wd_state = "returned" /\ runs >= 2) => (~needs_updating /\ ~last_saved)

\* C10: write_dockerfile returns True and saves the file exactly when the
\* rendered block is not a substring of the content it loaded; otherwise
\* it returns False and leaves the file as it was
WriteIffBlockMissing ==
    (wd_state = "returned" /\ runs >= 1) =>
        /\ needs_updating = ~IsSubstr(generate_dockerfile_block(wd_addons), wd_prev)
        /\ last_saved = needs_updating
        /\ ~needs_updating => file = wd_prev

\* C10 witness: the file held the block of an older release between the
\* markers; the first run replaced it, saved and returned True, the second
\* run found the new block there, returned False and saved nothing
WriteWitness ==
    /\ wd_state = "returned"
    /\ runs = 2
    /\ saves = 1
    /\ ~needs_updating
    /\ ~last_saved
    /\ file = wd_prev
    /\ Len(wd_addons) > 0
    /\ IsSubstr(<<autogenerated_start>> \o generate_dockerfile_block(wd_addons)
                \o <<autogenerated_end>>, file)
    /\ \E r \in Releases : r \notin Range(wd_addons) /\ r.name = wd_addons[1].name

---------------------------------------------------------------------------
(* main (lines 116-126) and publish_changes (lines 129-139): one run of    *)
(* the program, statement by statement.  A publishing step talks to git,   *)
(* GitHub or Slack, which may refuse: the step then raises and, no         *)
(* exception being caught in main, the run ends there.                     *)

\* line 124 mistaken: `or` in place of `&`
needs_publishing_or(needs, publish_) == needs \/ publish_

\* line 124: needs_publishing & publish
needs_publishing(needs, publish_) == needs /\ publish_

\* the zap_addons files and catalogs of the runs looked at
MainSeeds == {<<>>, <<<<"c">>>>, <<<<"a">>>>, <<<<"b">>, <<"a">>>>}

MainCatalogs ==
    {c \in Catalogs :
        \A n \in Names : c[n] = None \/ Get(c[n]).deps = None
                            \/ Len(Get(Get(c[n]).deps)) <= 1}

\* the Dockerfiles of the runs looked at: an empty region, a region with
\* text around and inside, and the region as an earlier run left it
MainFiles ==
    {<<autogenerated_start, autogenerated_end>>,
     <<"d", autogenerated_start, "d", autogenerated_end, "d">>,
     <<autogenerated_start>>
        \o generate_dockerfile_block(<<Release(<<"c">>, <<"1">>)>>)
        \o <<autogenerated_end>>}

\* the statements of publish_changes and the notification of line 126, in
\* the order of the source, with the exception each raises
PublishSteps ==
    <<"recreate_fork", "clone_fork", "copy_zap_dockerfile_into_fork",
      "checkout_new_git_branch", "commit_changes", "push_changes",
      "create_pull_request", "send_info">>

InitMain ==
    /\ xml_string \in MainCatalogs
    /\ seed \in MainSeeds
    /\ addons = <<>>
    /\ fill_result = "none"
    /\ calls = 0
    /\ file \in MainFiles
    /\ wd_addons = <<>>
    /\ needs_updating = FALSE
    /\ saves = 0
    /\ last_saved = FALSE
    /\ wd_prev = <<>>
    /\ runs = 0
    /\ wd_state = "idle"
    /\ publish \in BOOLEAN
    /\ pc = "build_addons"
    /\ error = "none"
    /\ effects = <<>>
    /\ PatchIdle
    /\ RenderIdle
    /\ ReadIdle
    /\ IoIdle

\* line 121: addons = build_addons(zap_addons_path, xml_url)
BuildAddons ==
    /\ pc = "build_addons"
    /\ LET read == [k \in 1..Len(seed) |-> Addon(seed[k])]
           r == fill_addons_details(read, xml_string, {})
       IN /\ addons' = r.list
          /\ fill_result' = IF r.err THEN "RecursionError" ELSE "returned"
          /\ pc' = IF r.err THEN "raised" ELSE "write_dockerfile"
          /\ error' = IF r.err THEN "RecursionError" ELSE error
    /\ calls' = calls + 1
    /\ UNCHANGED <<xml_string, seed, patchVars, writeVars, renderVars, readVars, ioVars,
                   publish, effects>>

\* lines 122-124: needs_publishing = write_dockerfile(addons, dockerfile_path)
\* and the test that guards the publishing
MainWriteDockerfile ==
    /\ pc = "write_dockerfile"
    /\ LET dockerfile_block_ == generate_dockerfile_block(addons)
           needs == needs_update(dockerfile_block_, file)
           r == update_dockerfile(file, dockerfile_block_)
       IN IF needs /\ r.err
          THEN /\ wd_state' = "re.error"
               /\ pc' = "raised"
               /\ error' = "re.error"
               /\ last_saved' = FALSE
               /\ UNCHANGED <<file, needs_updating, saves>>
          ELSE /\ wd_state' = "returned"
               /\ file' = IF needs THEN r.content ELSE file
               /\ saves' = IF needs THEN saves + 1 ELSE saves
               /\ last_saved' = needs
               /\ needs_updating' = needs
               /\ pc' = IF needs_publishing(needs, publish)
                        THEN PublishSteps[1] ELSE "returned"
               /\ UNCHANGED error
    /\ wd_addons' = addons
    /\ wd_prev' = file
    /\ runs' = runs + 1
    /\ UNCHANGED <<fillVars, patchVars, renderVars, readVars, ioVars, publish, effects>>


\* a statement that raises without ending the run, as if main caught the
\* exception and went on
PublishStep_goes_on(k, exception) ==
    /\ pc = PublishSteps[k]
    /\ \E ok \in BOOLEAN :
        /\ effects' = Append(effects, [step |-> PublishSteps[k], ok |-> ok])
        /\ pc' = IF k < Len(PublishSteps) THEN PublishSteps[k + 1] ELSE "returned"
        /\ error' = IF ok THEN error ELSE exception
    /\ UNCHANGED <<fillVars, patchVars, writeVars, renderVars, readVars, ioVars, publish>>

\* the k-th statement of PublishSteps runs: it succeeds and main goes on
\* to the next statement, or it raises exception and the run ends
PublishStep(k, exception) ==
    /\ pc = PublishSteps[k]
    /\ \E ok \in BOOLEAN :
        /\ effects' = Append(effects, [step |-> PublishSteps[k], ok |-> ok])
        /\ pc' = IF ~ok THEN "raised"
                 ELSE IF k < Len(PublishSteps) THEN PublishSteps[k + 1]
                 ELSE "returned"
        /\ error' = IF ok THEN error ELSE exception
    /\ UNCHANGED <<fillVars, patchVars, writeVars, renderVars, readVars, ioVars, publish>>

RecreateFork ==
    /\ pc = "recreate_fork"
    /\ \E e \in {"RecreateForkException", "DeleteForkException", "CreateForkException"} :
        PublishStep(1, e)

CloneFork ==
    /\ pc = "clone_fork"
    /\ PublishStep(2, "CloneForkException")

CopyZapDockerfileIntoFork ==
    /\ pc = "copy_zap_dockerfile_into_fork"
    /\ PublishStep(3, "CopyDockerfileToForkException")

CheckoutNewGitBranch ==
    /\ pc = "checkout_new_git_branch"
    /\ PublishStep(4, "CreateGitBranchException")

CommitChanges ==
    /\ pc = "commit_changes"
    /\ PublishStep(5, "CommitChangesException")

PushChanges ==
    /\ pc = "push_changes"
    /\ PublishStep(6, "PushChangesException")

CreatePullRequest ==
    /\ pc = "create_pull_request"
    /\ PublishStep(7, "CreatePullRequestException")

SendInfo ==
    /\ pc = "send_info"
    /\ PublishStep(8, "SendSlackMessageException")

NextMain ==
    \/ BuildAddons
    \/ MainWriteDockerfile
    \/ RecreateFork
    \/ CloneFork
    \/ CopyZapDockerfileIntoFork
    \/ CheckoutNewGitBranch
    \/ CommitChanges
    \/ PushChanges
    \/ CreatePullRequest
    \/ SendInfo

SpecMain == InitMain /\ [][NextMain]_vars

\* C11: once write_dockerfile has returned False, main is over and no
\* publishing step has run: no fork deleted or created, no clone, branch,
\* commit, push or pull request, no Slack message
NoChangeNoPublish ==
    (wd_state = "returned" /\ ~needs_updating) =>
        (pc = "returned" /\ effects = <<>>)

\* C11 witness: a run asked to publish, whose resolved set is not empty
\* and whose block the Dockerfile already held, ended without any step
NoChangeWitness ==
    /\ pc = "returned"
    /\ publish
    /\ wd_state = "returned"
    /\ ~needs_updating
    /\ Len(addons) > 0
    /\ file = wd_prev
    /\ effects = <<>>

---------------------------------------------------------------------------
(* The line break at the end of the inserted text *)

\* the pattern of update_dockerfile matches somewhere in the content
HasMatch(content) == \E p \in 1..Len(content) : MatchAt(content, p)

\* the text that stands, in the string update_dockerfile returned, between
\* the start marker written at the first match and the end marker after it
Inserted(content, out) ==
    LET p == CHOOSE p \in 1..Len(content) :
                 MatchAt(content, p) /\ \A j \in 1..(p - 1) : ~MatchAt(content, j)
        q == CHOOSE q \in (p + 1)..Len(out) :
                 /\ out[q] = autogenerated_end
                 /\ \A j \in (p + 1)..(q - 1) : out[j] # autogenerated_end
    IN SubSeq(out, p + 1, q - 1)

\* the number of line breaks a text ends with
TrailingLineBreaks(s) ==
    CHOOSE n \in 0..Len(s) :
        /\ \A j \in (Len(s) - n + 1)..Len(s) : s[j] = LF
        /\ n = Len(s) \/ s[Len(s) - n] # LF

\* C16 as stated: the text inserted between the markers ends with exactly
\* one line break, whatever the block ends with (already so for blocks
\* without backslash)
ExactlyOneLineBreak ==
    (PatchReturned /\ HasMatch(dockerfile_content) /\ BSL \notin Range(dockerfile_block)) =>
        TrailingLineBreaks(Inserted(dockerfile_content, patched.content)) = 1

\* C16 amended: the inserted text ends with a line break; a block without
\* backslash that ends with no line break (the empty block included) is
\* inserted with one line break appended, and one that ends with one or
\* several line breaks is inserted as it is
LineBreakAppended ==
    (PatchReturned /\ HasMatch(dockerfile_content)) =>
        LET X == Inserted(dockerfile_content, patched.content)
        IN /\ TrailingLineBreaks(X) >= 1
           /\ BSL \notin Range(dockerfile_block) =>
                 X = IF EndsWith(dockerfile_block, LF) THEN dockerfile_block
                     ELSE Append(dockerfile_block, LF)

\* C16 witness: a block of text without line break was inserted, between
\* the markers of a content with text around them, with one line break
\* appended
LineBreakWitness ==
    /\ PatchReturned
    /\ HasMatch(dockerfile_content)
    /\ dockerfile_content[1] = "d"
    /\ dockerfile_block = <<"d", "n">>
    /\ Inserted(dockerfile_content, patched.content) = <<"d", "n", LF>>
    /\ patched.content[Len(patched.content)] = "d"

---------------------------------------------------------------------------
(* generate_dockerfile_block (lines 395-420) on any list of records *)

\* the records handed to the renderer: a release, a release of another
\* status, a url that holds the version text twice, a version of several
\* characters, a record without version, and a record as Addon(name) makes
\* it, every field empty
RenderAddons ==
    {Release(<<"a">>, <<"1">>),
     [Release(<<"b">>, <<"2">>) EXCEPT !.status = <<"b", "e">>],
     [Release(<<"a">>, <<"1">>) EXCEPT !.url = <<"/", "1", "/", "a", "-", "1", ".", "z">>],
     [Release(<<"c">>, <<"1", ".", "2">>) EXCEPT !.url = <<"/", "c", "-", "1", ".", "2", ".", "z">>],
     [Release(<<"c">>, <<>>) EXCEPT !.url = <<"/", "c">>],
     Addon(<<"b">>)}

RenderSets == SeqsUpTo(RenderAddons, MaxRender)

InitRender ==
    /\ render_addons \in RenderSets
    /\ rendered = [called |-> FALSE, block |-> <<>>]
    /\ FillIdle
    /\ PatchIdle
    /\ WriteIdle
    /\ MainIdle
    /\ ReadIdle
    /\ IoIdle

\* one call generate_dockerfile_block(render_addons)
GenerateDockerfileBlock ==
    /\ ~rendered.called
    /\ rendered' = [called |-> TRUE, block |-> generate_dockerfile_block(render_addons)]
    /\ UNCHANGED <<render_addons, fillVars, patchVars, writeVars, mainVars, readVars, ioVars>>

NextRender == GenerateDockerfileBlock

SpecRender == InitRender /\ [][NextRender]_vars

\* C17: empty render - the block returned is the empty string exactly
\* when the list of addons is empty
EmptyRender ==
    rendered.called => (rendered.block = <<>> <=> Len(render_addons) = 0)

\* C17 witness: a single record with every field but the name empty was
\* rendered, and the block is not empty
EmptyRenderWitness ==
    /\ rendered.called
    /\ render_addons = <<Addon(<<"b">>)>>
    /\ Len(rendered.block) > 0

---------------------------------------------------------------------------
(* The empty block: write_dockerfile and update_dockerfile on Dockerfiles *)
(* whose region is empty, or not                                           *)

\* a region without content: the start marker line, then the end marker
EmptyRegion == <<autogenerated_start, LF, autogenerated_end>>

\* what stands between (and with) the markers of the Dockerfiles here
Regions ==
    {EmptyRegion,
     <<autogenerated_start, autogenerated_end>>,
     <<autogenerated_start, LF, "d", LF, autogenerated_end>>,
     <<autogenerated_start>> \o generate_dockerfile_block(<<Release(<<"a">>, <<"1">>)>>)
        \o <<autogenerated_end>>}

\* the text before and after the region
Around == {<<>>, <<"d", LF>>, <<LF, "d">>}

RegionFiles == {pre \o region \o post : pre \in Around, post \in Around, region \in Regions}

EmptyOrNot == {<<>>, <<Release(<<"a">>, <<"1">>)>>, <<Release(<<"b">>, <<"1">>)>>}

InitEmpty ==
    /\ file \in RegionFiles
    /\ wd_addons \in EmptyOrNot
    /\ needs_updating = FALSE
    /\ saves = 0
    /\ last_saved = FALSE
    /\ wd_prev = <<>>
    /\ runs = 0
    /\ wd_state = "idle"
    /\ dockerfile_content = file
    /\ dockerfile_block = generate_dockerfile_block(wd_addons)
    /\ patched = [err |-> FALSE, content |-> <<>>, called |-> FALSE]
    /\ FillIdle
    /\ RenderIdle
    /\ ReadIdle
    /\ IoIdle
    /\ MainIdle

NextEmpty == WriteDockerfile \/ UpdateDockerfile

SpecEmpty == InitEmpty /\ [][NextEmpty]_vars

\* the content holds one region, and it is empty
HasEmptyRegion(content) ==
    \E p \in 1..Len(content) :
        /\ p + 2 <= Len(content)
        /\ SubSeq(content, p, p + 2) = EmptyRegion
        /\ \A j \in 1..Len(content) :
              content[j] \in StartMatches \cup {autogenerated_end} => j \in {p, p + 2}

\* C18: empty patch is a no-op - on a Dockerfile whose region is empty,
\* write_dockerfile with the empty set returns False, saves nothing and
\* leaves the file as it was, and update_dockerfile with the empty block
\* returns the content it was given
EmptyPatchNoOp ==
    /\ (wd_state = "returned" /\ wd_addons = <<>> /\ HasEmptyRegion(wd_prev)) =>
          (~needs_updating /\ ~last_saved /\ saves = 0 /\ file = wd_prev)
    /\ (PatchReturned /\ dockerfile_block = <<>> /\ HasEmptyRegion(dockerfile_content)) =>
          patched.content = dockerfile_content

\* C18 witness: both operations were applied with the empty block to a
\* Dockerfile with text around its empty region, and the file is the same
EmptyPatchWitness ==
    /\ wd_state = "returned"
    /\ runs = 1
    /\ wd_addons = <<>>
    /\ HasEmptyRegion(wd_prev)
    /\ PatchReturned
    /\ dockerfile_block = <<>>
    /\ dockerfile_content = wd_prev
    /\ Len(wd_prev) > Len(EmptyRegion)
    /\ file = wd_prev
    /\ patched.content = file

---------------------------------------------------------------------------
(* Properties of the renderer *)

\* str.splitlines on a text that ends with a line break or is empty, plus
\* the empty piece after the last line break: the pieces between the
\* line breaks
SplitLines(s) ==
    LET idx == {k \in 1..Len(s) : s[k] = LF}
        n == Cardinality(idx)
        pos(i) == CHOOSE k \in idx : Cardinality({j \in idx : j < k}) = i - 1
        start(i) == IF i = 1 THEN 1 ELSE pos(i - 1) + 1
        stop(i) == IF i = n + 1 THEN Len(s) ELSE pos(i) - 1
    IN [i \in 1..(n + 1) |-> SubSeq(s, start(i), stop(i))]

Indent == <<"        ">>
Continuation == <<" ", BSL>>

\* the reference the fetch line of an addon holds: ${NAME_VERSION}
Reference(addon) == <<"${">> \o upper(addon.name) \o <<"_VERSION}">>

\* line without its first `skip` characters and its last `drop` ones
Body(line, skip, drop) == SubSeq(line, skip + 1, Len(line) - drop)

\* the i-th declaration, removal and fetch line of a block rendered for n
\* addons
DeclarationLine(lines, n, i) == lines[2 + i]
RemovalLine(lines, n, i) == lines[n + 3 + i]
FetchLine(lines, n, i) == lines[2 * n + 4 + i]

\* C19: render layout - the block for n addons is the scaffold with n
\* declaration lines, then n removal lines (name and status) every one
\* continued, then n fetch lines every one but the last continued; the
\* i-th line of each group is made from the i-th addon
RenderLayout ==
    (rendered.called /\ Len(render_addons) > 0) =>
        LET n == Len(render_addons)
            lines == SplitLines(rendered.block)
        IN /\ Len(lines) = 3 * n + 5
           /\ lines[1] = <<>>
           /\ lines[2] = <<"WORKDIR /zap/plugin">>
           /\ lines[n + 3] = <<"RUN rm --force ", BSL>>
           /\ lines[2 * n + 4] = <<"    && wget --quiet ", BSL>>
           /\ lines[3 * n + 5] = <<>>
           /\ \A i \in 1..n :
                 LET addon == render_addons[i]
                     fetch == FetchLine(lines, n, i)
                     drop == IF i < n THEN Len(Continuation) ELSE 0
                 IN /\ SubSeq(DeclarationLine(lines, n, i), 1, 1 + Len(addon.name))
                          = <<"ARG ">> \o upper(addon.name)
                    /\ RemovalLine(lines, n, i)
                          = Indent \o addon.name \o <<"-">> \o addon.status
                              \o <<"-*.zap ", BSL>>
                    /\ SubSeq(fetch, 1, 1) = Indent
                    /\ i < n => SubSeq(fetch, Len(fetch) - 1, Len(fetch)) = Continuation
                    /\ i = n => (Len(fetch) = 1 \/ fetch[Len(fetch)] # BSL)
                    /\ str_replace(Body(fetch, 1, drop), Reference(addon), addon.version)
                          = addon.url

\* C19 witness: three different addons rendered, the first two fetch lines
\* continued and the last one not
RenderLayoutWitness ==
    /\ rendered.called
    /\ Len(render_addons) = 3
    /\ render_addons[1].name # render_addons[2].name
    /\ render_addons[2].name # render_addons[3].name
    /\ render_addons[1].name # render_addons[3].name
    /\ LET lines == SplitLines(rendered.block)
       IN /\ Len(lines) = 14
          /\ FetchLine(lines, 3, 1)[Len(FetchLine(lines, 3, 1))] = BSL
          /\ FetchLine(lines, 3, 2)[Len(FetchLine(lines, 3, 2))] = BSL
          /\ FetchLine(lines, 3, 3)[Len(FetchLine(lines, 3, 3))] # BSL

---------------------------------------------------------------------------
(* Determinism of resolving and rendering *)

\* C21: determinism - a call of fill_addons_details on the list that an
\* earlier call returned, the catalog unchanged, leaves the rendered block
\* as it was (already so for seed lists of distinct names that the catalog
\* all has)
RepeatDeterminism ==
    [][(/\ fill_result = "returned"
        /\ fill_result' = "returned"
        /\ NoRepeat(seed)
        /\ \A k \in 1..Len(seed) : HasElement(xml_string, seed[k])) =>
          generate_dockerfile_block(addons') = generate_dockerfile_block(addons)]_vars

---------------------------------------------------------------------------
(* fill_addons_details on an element with missing child tags *)

\* the metadata of an element for n that holds only the tags of `present`
PartialMeta(n, present) ==
    [t \in MetaTags |-> IF t \in present THEN FullMeta(n)[t] ELSE None]

\* what the element may hold below dependencies/addons: no such path, no
\* declaration, a declaration with or without <version>
FieldDeps ==
    {None, Some(<<>>),
     Some(<<DepTag(Some(<<"b">>), None)>>),
     Some(<<DepTag(Some(<<"b">>), Some(<<"3">>))>>),
     Some(<<DepTag(Some(<<"b">>), None), DepTag(Some(<<"c">>), Some(<<"3">>))>>)}

\* catalogs with an element for a that lacks any of its child tags, a
\* full element for b and none for c
FieldCatalogs ==
    {[n \in Names |->
        IF n = <<"a">> THEN Some([meta |-> PartialMeta(n, present), deps |-> d])
        ELSE IF n = <<"b">> THEN Some([meta |-> FullMeta(n), deps |-> None])
        ELSE None] : present \in SUBSET MetaTags, d \in FieldDeps}

InitFields ==
    /\ xml_string \in FieldCatalogs
    /\ seed = <<<<"a">>>>
    /\ addons = <<Addon(<<"a">>)>>
    /\ fill_result = "none"
    /\ calls = 0
    /\ PatchIdle
    /\ WriteIdle
    /\ RenderIdle
    /\ ReadIdle
    /\ IoIdle
    /\ MainIdle

NextFields == FillAddonsDetails

SpecFields == InitFields /\ [][NextFields]_vars

\* the field of a record that holds the text of a metadata tag
FieldOf(addon, tag) ==
    CASE tag = "date"               -> addon.date
      [] tag = "file"               -> addon.file
      [] tag = "hash"               -> addon.hash
      [] tag = "not-before-version" -> addon.not_before_version
      [] tag = "status"             -> addon.status
      [] tag = "url"                -> addon.url
      [] tag = "version"            -> addon.version

\* C22: missing optional sub-field - the call returns, and in the record
\* of the found addon every metadata tag that its element lacks is the
\* empty string; without a dependencies/addons/addon path the dependency
\* list is empty
MissingFieldEmpty ==
    calls = 1 =>
        /\ fill_result = "returned"
        /\ Len(addons) >= 1
        /\ addons[1].name = seed[1]
        /\ LET xml_addon == Get(xml_string[seed[1]])
           IN /\ \A tag \in MetaTags :
                    xml_addon.meta[tag] = None => FieldOf(addons[1], tag) = <<>>
              /\ xml_addon.deps = None => addons[1].dependencies = <<>>

---------------------------------------------------------------------------
(* read_addons (lines 323-331) on any content of the zap_addons file *)

\* open(file_path) reads in text mode: "\r\n" and a lone "\r" come out of
\* file.read() as "\n"
universal_newlines(s) ==
    LET pieces == [k \in 1..Len(s) |->
                      IF s[k] = CR THEN <<LF>>
                      ELSE IF s[k] = LF /\ k > 1 /\ s[k - 1] = CR THEN <<>>
                      ELSE <<s[k]>>]
    IN concat(pieces, 1, Len(s))

\* str.splitlines() on a text whose line breaks are all "\n": the pieces
\* between them, without an empty piece after a final line break
splitlines(s) ==
    LET p == SplitLines(s)
    IN IF p[Len(p)] = <<>> THEN SubSeq(p, 1, Len(p) - 1) ELSE p

\* lines 327-330 without the test of line 329: every line makes a record
read_addons_nofilter(text) ==
    LET addon_names == splitlines(universal_newlines(text))
    IN [k \in 1..Len(addon_names) |-> Addon(addon_names[k])]

read_addons(text) ==
    LET addon_names == SelectSeq(splitlines(universal_newlines(text)),
                                 LAMBDA addon_name : addon_name # <<>>)
    IN [k \in 1..Len(addon_names) |-> Addon(addon_names[k])]

FileChars == {"a", "b", " ", LF, CR}

ZapAddonsFiles == SeqsUpTo(FileChars, MaxFileLen)

InitRead ==
    /\ zap_addons_file \in ZapAddonsFiles
    /\ read_result = [called |-> FALSE, addons |-> <<>>]
    /\ FillIdle
    /\ PatchIdle
    /\ WriteIdle
    /\ RenderIdle
    /\ MainIdle
    /\ IoIdle

\* one call read_addons(zap_addons_path)
ReadAddons ==
    /\ ~read_result.called
    /\ read_result' = [called |-> TRUE, addons |-> read_addons(zap_addons_file)]
    /\ UNCHANGED <<zap_addons_file, fillVars, patchVars, writeVars, renderVars,
                   mainVars, ioVars>>

NextRead == ReadAddons

SpecRead == InitRead /\ [][NextRead]_vars

LineBreaks == {LF, CR}

\* the non-empty lines of a text, in order: the longest runs of characters
\* other than line breaks
NonEmptyLines(s) ==
    LET starts == {k \in 1..Len(s) :
                      s[k] \notin LineBreaks /\ (k = 1 \/ s[k - 1] \in LineBreaks)}
        start(i) == CHOOSE k \in starts : Cardinality({j \in starts : j < k}) = i - 1
        stop(k) == CHOOSE e \in k..Len(s) :
                       /\ \A j \in k..e : s[j] \notin LineBreaks
                       /\ e = Len(s) \/ s[e + 1] \in LineBreaks
    IN [i \in 1..Cardinality(starts) |-> SubSeq(s, start(i), stop(start(i)))]

\* the text with every "\n" written as "\r\n"
WithCRLF(s) ==
    concat([k \in 1..Len(s) |-> IF s[k] = LF THEN <<CR, LF>> ELSE <<s[k]>>], 1, Len(s))

---------------------------------------------------------------------------
(* recreate_fork (lines 142-156), call by call.  env holds the locals of  *)
(* the running function, calls_log the calls it made with what each gave.  *)

ParentName == "build-dynamic-application-security-testing"
IndexedName == "build-dynamic-application-security-testing-1"

\* line 154: the last attempt is the one with attempt = 14
LastAttempt == 14

\* line 154 mistaken: attempt > 14
gives_up_late(attempt) == attempt > LastAttempt

\* line 154: attempt >= 14
gives_up(attempt) == attempt >= LastAttempt

LogCall(call, result) == Append(calls_log, [call |-> call, result |-> result])

InitFork ==
    /\ env = [attempt |-> 0, at |-> "delete_fork"]
    /\ calls_log = <<>>
    /\ outcome = "running"
    /\ FillIdle
    /\ PatchIdle
    /\ WriteIdle
    /\ RenderIdle
    /\ MainIdle
    /\ ReadIdle

\* line 150: delete_fork() returns, or raises DeleteForkException
DeleteFork ==
    /\ outcome = "running"
    /\ env.at = "delete_fork"
    /\ \E ok \in BOOLEAN :
          /\ calls_log' = LogCall("delete_fork", IF ok THEN "ok" ELSE "DeleteForkException")
          /\ env' = IF ok THEN [env EXCEPT !.at = "create_fork"] ELSE env
          /\ outcome' = IF ok THEN outcome ELSE "DeleteForkException"
    /\ UNCHANGED <<fillVars, patchVars, writeVars, renderVars, mainVars, readVars>>

\* line 151: create_fork() returns, or raises CreateForkException
CreateFork ==
    /\ outcome = "running"
    /\ env.at = "create_fork"
    /\ \E ok \in BOOLEAN :
          /\ calls_log' = LogCall("create_fork", IF ok THEN "ok" ELSE "CreateForkException")
          /\ env' = IF ok THEN [env EXCEPT !.at = "look_up_fork_name"] ELSE env
          /\ outcome' = IF ok THEN outcome ELSE "CreateForkException"
    /\ UNCHANGED <<fillVars, patchVars, writeVars, renderVars, mainVars, readVars>>

\* lines 152-156: look_up_fork_name() gives the fork's name (or raises
\* ForkNotFoundException when get_fork finds no fork); the right name ends
\* the call, a wrong one ends it with RecreateForkException on the last
\* attempt and starts recreate_fork(attempt + 1) otherwise
LookUpForkName ==
    /\ outcome = "running"
    /\ env.at = "look_up_fork_name"
    /\ \E name \in {ParentName, IndexedName, "ForkNotFoundException"} :
          /\ calls_log' = LogCall("look_up_fork_name", name)
          /\ IF name = "ForkNotFoundException"
             THEN outcome' = "ForkNotFoundException" /\ UNCHANGED env
             ELSE IF name = ParentName
             THEN outcome' = "returned" /\ UNCHANGED env
             ELSE IF gives_up(env.attempt)
             THEN outcome' = "RecreateForkException" /\ UNCHANGED env
             ELSE /\ env' = [attempt |-> env.attempt + 1, at |-> "delete_fork"]
                  /\ UNCHANGED outcome
    /\ UNCHANGED <<fillVars, patchVars, writeVars, renderVars, mainVars, readVars>>

NextFork == DeleteFork \/ CreateFork \/ LookUpForkName

SpecFork == InitFork /\ [][NextFork]_vars

AttemptOrder == <<"delete_fork", "create_fork", "look_up_fork_name">>

\* the indices of calls_log at which look_up_fork_name was called
LookUps == {k \in 1..Len(calls_log) : calls_log[k].call = "look_up_fork_name"}

\* C24: bounded fork recreation - the calls are delete_fork, create_fork,
\* look_up_fork_name, in that order, attempt after attempt; the first look
\* up that gives the parent's name is the last call and recreate_fork
\* returns; RecreateForkException comes after exactly 15 attempts, 45
\* calls, every name wrong; and no call follows the 45th
BoundedForkRecreation ==
    LET n == Len(calls_log)
    IN /\ n <= 3 * (LastAttempt + 1)
       /\ \A k \in 1..n : calls_log[k].call = AttemptOrder[((k - 1) % 3) + 1]
       /\ \A k \in LookUps :
             calls_log[k].result = ParentName => (k = n /\ outcome = "returned")
       /\ outcome = "returned" => (n \in LookUps /\ calls_log[n].result = ParentName)
       /\ outcome = "RecreateForkException" =>
             /\ n = 45
             /\ Cardinality(LookUps) = 15
             /\ \A k \in LookUps : calls_log[k].result = IndexedName
       /\ n = 45 => outcome # "running"

\* C24 witness: fifteen attempts, each with a wrong name, and then
\* RecreateForkException
ForkGivenUpWitness ==
    /\ outcome = "RecreateForkException"
    /\ Len(calls_log) = 45
    /\ env.attempt = 14

---------------------------------------------------------------------------
(* create_fork (lines 237-253): the creation request, then the polling.    *)

\* the answers to the creation request: a response with a status code, or
\* no response at all (requests raises ConnectionError or Timeout)
PostAnswers ==
    [response : {TRUE}, status : {200, 201, 202, 404, 500}]
        \cup {[response |-> FALSE, status |-> 0]}

\* Response.raise_for_status: HTTPError for a 4xx or 5xx status
raise_for_status(status) == status >= 400 /\ status < 600

\* the request raises a RequestException: no answer, or raise_for_status
request_fails(answer) ==
    IF answer.response THEN raise_for_status(answer.status) ELSE TRUE

\* line 247: range(15)
Checks == 15

\* line 247 with one check more
in_range_more(attempt) == attempt <= Checks

\* line 247: attempt in range(15)
in_range(attempt) == attempt < Checks

InitCreate ==
    /\ env = [attempt |-> 0, at |-> "requests.post"]
    /\ calls_log = <<>>
    /\ outcome = "running"
    /\ FillIdle
    /\ PatchIdle
    /\ WriteIdle
    /\ RenderIdle
    /\ MainIdle
    /\ ReadIdle

\* line 246 (and 252-253 when the request fails)
PostFork ==
    /\ outcome = "running"
    /\ env.at = "requests.post"
    /\ \E answer \in PostAnswers :
          /\ calls_log' = LogCall("requests.post", answer)
          /\ IF request_fails(answer)
             THEN outcome' = "CreateForkException" /\ UNCHANGED env
             ELSE IF in_range(0)
             THEN env' = [attempt |-> 0, at |-> "fork_exists"] /\ UNCHANGED outcome
             ELSE outcome' = "CreateForkException" /\ UNCHANGED env
    /\ UNCHANGED <<fillVars, patchVars, writeVars, renderVars, mainVars, readVars>>

\* lines 247-251, one round of the loop: fork_exists() is true (return),
\* false (sleep, next round, CreateForkException after the last one) or
\* get_fork's request raises a RequestException (lines 252-253)
ForkExists ==
    /\ outcome = "running"
    /\ env.at = "fork_exists"
    /\ \E answer \in {"True", "False", "RequestException"} :
          /\ calls_log' = LogCall("fork_exists", answer)
          /\ IF answer = "True"
             THEN outcome' = "returned" /\ UNCHANGED env
             ELSE IF answer = "RequestException"
             THEN outcome' = "CreateForkException" /\ UNCHANGED env
             ELSE IF in_range(env.attempt + 1)
             THEN env' = [env EXCEPT !.attempt = @ + 1] /\ UNCHANGED outcome
             ELSE outcome' = "CreateForkException" /\ UNCHANGED env
    /\ UNCHANGED <<fillVars, patchVars, writeVars, renderVars, mainVars, readVars>>

NextCreate == PostFork \/ ForkExists

SpecCreate == InitCreate /\ [][NextCreate]_vars

\* the indices of calls_log at which fork_exists was called
ExistChecks == {k \in 1..Len(calls_log) : calls_log[k].call = "fork_exists"}

FalseChecks == {k \in ExistChecks : calls_log[k].result = "False"}

\* C25: bounded creation polling - the creation request comes first; when
\* it fails create_fork raises CreateForkException with no fork_exists
\* check; otherwise at most 15 checks are made, a true check is the last
\* call and create_fork returns (and it returns in no other way), and
\* after 15 false checks it raises CreateForkException
CreationPolling ==
    LET n == Len(calls_log)
    IN /\ n >= 1 => calls_log[1].call = "requests.post"
       /\ ExistChecks \subseteq 2..n
       /\ Cardinality(ExistChecks) <= 15
       /\ (n >= 1 /\ request_fails(calls_log[1].result)) =>
             (n = 1 /\ outcome = "CreateForkException")
       /\ \A k \in ExistChecks :
             calls_log[k].result = "True" => (k = n /\ outcome = "returned")
       /\ outcome = "returned" => (n \in ExistChecks /\ calls_log[n].result = "True")
       /\ Cardinality(FalseChecks) = 15 => outcome = "CreateForkException"
       /\ outcome = "CreateForkException" =>
             \/ n = 1 /\ request_fails(calls_log[1].result)
             \/ Cardinality(FalseChecks) = 15
             \/ calls_log[n].result = "RequestException"

\* C25 witness: an accepted creation request, fifteen false checks, and
\* CreateForkException
PollingGivenUpWitness ==
    /\ outcome = "CreateForkException"
    /\ Len(calls_log) = 16
    /\ Cardinality(FalseChecks) = 15

---------------------------------------------------------------------------
(* commit_changes (lines 171-188): git add, then git commit.               *)

\* what subprocess.run gives back: the exit status and the captured output
Completed == [returncode : {0, 1, 128}, stdout : {"", "fatal"}]

DockerfilePaths == {"Dockerfile", "fork/Dockerfile"}

CommitMessages == {"Upgrade a", "Upgrade b", "Upgrade a, b"}

\* lines 177 and 187 mistaken: only exit status 1 counts as a failure
failed_one(completed) == completed.returncode = 1

\* lines 177 and 187: returncode != 0
failed(completed) == completed.returncode # 0

InitCommit ==
    /\ \E path \in DockerfilePaths, message \in CommitMessages :
          env = [dockerfile_path |-> path, message |-> message, at |-> "git add"]
    /\ calls_log = <<>>
    /\ outcome = "running"
    /\ FillIdle
    /\ PatchIdle
    /\ WriteIdle
    /\ RenderIdle
    /\ MainIdle
    /\ ReadIdle

\* lines 172-180
GitAdd ==
    /\ outcome = "running"
    /\ env.at = "git add"
    /\ \E add_output \in Completed :
          /\ calls_log' = LogCall("git add", add_output)
          /\ IF failed(add_output)
             THEN outcome' = "CommitChangesException" /\ UNCHANGED env
             ELSE env' = [env EXCEPT !.at = "git commit"] /\ UNCHANGED outcome
    /\ UNCHANGED <<fillVars, patchVars, writeVars, renderVars, mainVars, readVars>>

\* lines 182-188
GitCommit ==
    /\ outcome = "running"
    /\ env.at = "git commit"
    /\ \E commit_output \in Completed :
          /\ calls_log' = LogCall("git commit", commit_output)
          /\ outcome' = IF failed(commit_output)
                        THEN "CommitChangesException"
                        ELSE "returned"
    /\ UNCHANGED env
    /\ UNCHANGED <<fillVars, patchVars, writeVars, renderVars, mainVars, readVars>>

NextCommit == GitAdd \/ GitCommit

SpecCommit == InitCommit /\ [][NextCommit]_vars

\* C26: commit atomicity - git add runs first and git commit second;
\* a non-zero exit status of either raises CommitChangesException, after a
\* failed git add no git commit is run, and commit_changes returns only
\* when both exited with 0
CommitAtomicity ==
    LET n == Len(calls_log)
    IN /\ n <= 2
       /\ n >= 1 => calls_log[1].call = "git add"
       /\ n >= 2 => calls_log[2].call = "git commit"
       /\ (n >= 1 /\ calls_log[1].result.returncode # 0) =>
             (n = 1 /\ outcome = "CommitChangesException")
       /\ (n = 2 /\ calls_log[2].result.returncode # 0) =>
             outcome = "CommitChangesException"
       /\ outcome = "returned" =>
             (n = 2 /\ \A k \in 1..2 : calls_log[k].result.returncode = 0)
       /\ outcome = "CommitChangesException" =>
             calls_log[n].result.returncode # 0

\* C26 witness: git add failed with status 128, and no git commit was run
AddFailedWitness ==
    /\ outcome = "CommitChangesException"
    /\ Len(calls_log) = 1
    /\ calls_log[1].call = "git add"
    /\ calls_log[1].result.returncode = 128

---------------------------------------------------------------------------
(* Notifier.send_message (slack.py lines 24-28) with _send (33-41) and     *)
(* _handle_response (65-69).                                               *)

ResponseKeys == {"errors", "exclusions"}

\* the JSON objects a response body holds: each key absent, an empty list
\* or a list of one entry
ResponseDicts ==
    UNION {[keys -> {<<>>, <<"entry">>}] : keys \in SUBSET ResponseKeys}

\* a response body: a JSON object, or anything else
ResponseBodies ==
    [object : {TRUE}, dict : ResponseDicts]
        \cup {[object |-> FALSE, dict |-> <<>>]}

\* what requests.post comes back with: a response with a status code and a
\* body, or no response at all (ConnectionError, Timeout after 10 seconds)
SlackAnswers ==
    [response : {TRUE}, status : {200, 300, 403, 500}, body : ResponseBodies]
        \cup {[response |-> FALSE, status |-> 0, body |-> [object |-> FALSE, dict |-> <<>>]]}

\* dict.get: the value, or None for a key that is absent
dict_get(dict, key) == IF key \in DOMAIN dict THEN Some(dict[key]) ELSE None

\* Python truth of an optional list: None and [] are false
truthy(value) == value # None /\ value[1] # <<>>

\* send_info passes "#36a64f" and send_error "#ff4d4d"
Colors == {"#36a64f", "#ff4d4d"}

InitSlack ==
    /\ \E color \in Colors : env = [color |-> color, at |-> "_send", response |-> <<>>]
    /\ calls_log = <<>>
    /\ outcome = "running"
    /\ FillIdle
    /\ PatchIdle
    /\ WriteIdle
    /\ RenderIdle
    /\ MainIdle
    /\ ReadIdle

\* lines 33-41 under the try of lines 25-28: the request, raise_for_status
\* and response.json().  A body that is no JSON object raises in
\* response.json() or dict(): a RequestException (JSONDecodeError of
\* requests 2.27 and later), or a ValueError or TypeError that
\* send_message does not catch
Send ==
    /\ outcome = "running"
    /\ env.at = "_send"
    /\ \E answer \in SlackAnswers :
          /\ calls_log' = LogCall("requests.post", answer)
          /\ IF request_fails(answer)
             THEN outcome' = "SendSlackMessageException" /\ UNCHANGED env
             ELSE IF ~answer.body.object
             THEN /\ outcome' \in {"SendSlackMessageException", "ValueError"}
                  /\ UNCHANGED env
             ELSE /\ env' = [env EXCEPT !.at = "_handle_response",
                                        !.response = answer.body.dict]
                  /\ UNCHANGED outcome
    /\ UNCHANGED <<fillVars, patchVars, writeVars, renderVars, mainVars, readVars>>

\* lines 65-69
HandleResponse ==
    /\ outcome = "running"
    /\ env.at = "_handle_response"
    /\ LET errors == dict_get(env.response, "errors")
           exclusions == dict_get(env.response, "exclusions")
       IN outcome' = IF truthy(errors) \/ truthy(exclusions)
                     THEN "SendSlackMessageException"
                     ELSE "returned"
    /\ UNCHANGED <<env, calls_log>>
    /\ UNCHANGED <<fillVars, patchVars, writeVars, renderVars, mainVars, readVars>>

NextSlack == Send \/ HandleResponse

SpecSlack == InitSlack /\ [][NextSlack]_vars

\* a key of the last response's body holds a non-empty list
Carries(key) ==
    LET dict == calls_log[1].result.body.dict
    IN key \in DOMAIN dict /\ dict[key] # <<>>

Is2xx(status) == status >= 200 /\ status < 300

\* C27: Slack failures are typed - send_message has raised
\* SendSlackMessageException when it ended on a response with a non-2xx
\* status or on a 2xx response whose body carries non-empty errors or
\* exclusions, and has returned only on a 2xx response carrying neither
SlackFailuresTyped ==
    (outcome # "running" /\ calls_log[1].result.response) =>
        LET answer == calls_log[1].result
        IN /\ ~Is2xx(answer.status) => outcome = "SendSlackMessageException"
           /\ (/\ Is2xx(answer.status)
               /\ answer.body.object
               /\ (Carries("errors") \/ Carries("exclusions"))) =>
                 outcome = "SendSlackMessageException"
           /\ outcome = "returned" =>
                 /\ Is2xx(answer.status)
                 /\ ~Carries("errors")
                 /\ ~Carries("exclusions")

---------------------------------------------------------------------------
\* the steps of effects that succeeded
Succeeded == {effects[k].step : k \in {j \in 1..Len(effects) : effects[j].ok}}

Attempted == {effects[k].step : k \in 1..Len(effects)}

\* C28: publishing order - the steps run so far are the first ones of
\* recreate fork, clone, copy, checkout, commit, push, create pull request,
\* send notification, in that order and each at most once; a step that
\* failed is the last one and the run has raised; so the pull request is
\* attempted only after a successful push and the notification only after
\* the pull request was created; steps run only in a run that publishes a
\* change
PublishingOrder ==
    /\ Len(effects) <= 8
    /\ \A k \in 1..Len(effects) :
          /\ effects[k].step =
                <<"recreate_fork", "clone_fork", "copy_zap_dockerfile_into_fork",
                  "checkout_new_git_branch", "commit_changes", "push_changes",
                  "create_pull_request", "send_info">>[k]
          /\ ~effects[k].ok => (k = Len(effects) /\ pc = "raised")
    /\ "create_pull_request" \in Attempted => "push_changes" \in Succeeded
    /\ "send_info" \in Attempted => "create_pull_request" \in Succeeded
    /\ effects # <<>> => (publish /\ needs_updating)
    /\ (pc = "returned" /\ effects # <<>>) =>
          (Len(effects) = 8 /\ \A k \in 1..8 : effects[k].ok)

\* C28 witness: the push failed; no pull request was asked for and no
\* notification sent
PushFailedWitness ==
    /\ pc = "raised"
    /\ error = "PushChangesException"
    /\ Len(effects) = 6
    /\ ~effects[6].ok

---------------------------------------------------------------------------
(* The program run again (lines 469-509 call main anew) after a run whose  *)
(* publishing failed: same zap_addons file, same catalog, and the          *)
(* Dockerfile as the failed run left it.  Nothing in main or in            *)
(* publish_changes catches the exception or writes the Dockerfile back.    *)

\* the Dockerfiles of the runs looked at: a region with text around and
\* inside, and a file without the markers
RerunFiles ==
    {<<"d", autogenerated_start, "d", autogenerated_end, "d">>,
     <<"d">>}

InitRerun ==
    /\ xml_string \in MainCatalogs
    /\ seed \in MainSeeds
    /\ addons = <<>>
    /\ fill_result = "none"
    /\ calls = 0
    /\ file \in RerunFiles
    /\ wd_addons = <<>>
    /\ needs_updating = FALSE
    /\ saves = 0
    /\ last_saved = FALSE
    /\ wd_prev = <<>>
    /\ runs = 0
    /\ wd_state = "idle"
    /\ publish \in BOOLEAN
    /\ pc = "build_addons"
    /\ error = "none"
    /\ effects = <<>>
    /\ PatchIdle
    /\ RenderIdle
    /\ ReadIdle
    /\ IoIdle

\* a publishing step of the run has raised and the process is over; the
\* program is started again with the same arguments.  effects keeps the
\* steps of the earlier runs, the entry "main" marking the new start
MainAgain ==
    /\ pc = "raised"
    /\ effects # <<>>
    /\ ~effects[Len(effects)].ok
    /\ runs < MaxRuns
    /\ pc' = "build_addons"
    /\ error' = "none"
    /\ effects' = Append(effects, [step |-> "main", ok |-> TRUE])
    /\ addons' = <<>>
    /\ fill_result' = "none"
    /\ wd_state' = "idle"
    /\ UNCHANGED <<xml_string, seed, calls, file, wd_addons, needs_updating, saves,
                   last_saved, wd_prev, runs, publish>>
    /\ UNCHANGED <<patchVars, renderVars, readVars, ioVars>>

NextRerun == NextMain \/ MainAgain

SpecRerun == InitRerun /\ [][NextRerun]_vars

\* the entries of effects at which the program was started again
Restarts == {k \in 1..Len(effects) : effects[k].step = "main"}

\* C29: no rollback of the local patch - the Dockerfile was written before
\* the first publishing step; and in a run started after a run whose
\* publishing failed, once write_dockerfile has returned, it has returned
\* False, has left the file as the failed run wrote it, and no publishing
\* step has run since the start
NoRollback ==
    /\ effects # <<>> => saves >= 1
    /\ (Restarts # {} /\ wd_state = "returned") =>
          /\ ~needs_updating
          /\ file = wd_prev
          /\ effects[Len(effects)].step = "main"

\* the same for a Dockerfile that has a region bounded by the two markers
NoRollbackWithRegion == HasMatch(file) => NoRollback

---------------------------------------------------------------------------
\* C30: the empty set never touches the file - once write_dockerfile has
\* returned for an empty addon set it has returned False and saved
\* nothing, the file is what it was, generated content between the markers
\* included, and main has ended without running any publishing step
EmptySetNeverWrites ==
    (wd_state = "returned" /\ wd_addons = <<>>) =>
        /\ ~needs_updating
        /\ ~last_saved
        /\ saves = 0
        /\ file = wd_prev
        /\ effects = <<>>
        /\ pc \in {"idle", "returned"}

\* C30 witness: a run asked to publish resolved the empty set on a
\* Dockerfile that holds the block an earlier run generated, and ended
\* with the block still there
EmptySetWitness ==
    /\ pc = "returned"
    /\ publish
    /\ wd_state = "returned"
    /\ wd_addons = <<>>
    /\ IsSubstr(generate_dockerfile_block(<<Release(<<"c">>, <<"1">>)>>), file)
    /\ effects = <<>>

============================================================================
